---- MODULE Spec2Model ----
(***************************************************************************)
(* Model of script2.py: the bulk domain checker.  main() loads a column of *)
(* domains, starts one asyncio task per domain (process_batch), each task  *)
(* takes a slot of one shared asyncio.Semaphore, runs check_website_status *)
(* (normalise, validate, resolve, https then http), and asyncio.gather     *)
(* collects the task results, which are classified and written out.        *)
(*                                                                         *)
(* Text is modelled as sequences of one-character strings.  The event loop *)
(* is single threaded: `running` names the task that holds the thread, and *)
(* a task gives it up only where the code awaits something not yet done.   *)
(***************************************************************************)
EXTENDS Integers, Sequences, FiniteSets

\* ------------------------------------------------------------ bounds
\* Number of rows of the input column.
NumDomains == 2
\* The runs explore every semaphore size 1..MaxPermits.
MaxPermits == 2

\* ------------------------------------------------------------ constants
TIMEOUT == 10
MAX_REDIRECTS == 5

\* ------------------------------------------------------------ text
Uppers == <<"A","B","C","D","E","F","G","H","I","J","K","L","M",
            "N","O","P","Q","R","S","T","U","V","W","X","Y","Z">>
Lowers == <<"a","b","c","d","e","f","g","h","i","j","k","l","m",
            "n","o","p","q","r","s","t","u","v","w","x","y","z">>
Digits == <<"0","1","2","3","4","5","6","7","8","9">>
Whitespace == {" "}

Range(f) == {f[k] : k \in DOMAIN f}
IsAlpha(c) == c \in Range(Uppers) \cup Range(Lowers)
IsAlnum(c) == IsAlpha(c) \/ c \in Range(Digits)

SetMin(S) == CHOOSE m \in S : \A k \in S : m <= k
SetMax(S) == CHOOSE m \in S : \A k \in S : m >= k

\* str.strip(): leading and trailing whitespace removed.
strip(s) ==
    LET keep == {k \in 1..Len(s) : s[k] \notin Whitespace}
    IN  IF keep = {} THEN <<>> ELSE SubSeq(s, SetMin(keep), SetMax(keep))

ToLower(c) ==
    IF \E k \in 1..26 : Uppers[k] = c
    THEN Lowers[CHOOSE k \in 1..26 : Uppers[k] = c]
    ELSE c

\* str.lower()
lower(s) == [k \in 1..Len(s) |-> ToLower(s[k])]

\* str.startswith(prefix)
startswith(s, p) == Len(s) >= Len(p) /\ SubSeq(s, 1, Len(p)) = p

HttpPrefix == <<"h","t","t","p",":","/","/">>
HttpsPrefix == <<"h","t","t","p","s",":","/","/">>

\* urlparse(domain).netloc for a text that starts with http:// or https://:
\* the part after "//" up to the first "/", "?" or "#".  urlsplit raises
\* ValueError ("Invalid IPv6 URL") when the authority holds one of "[" and
\* "]" without the other.
urlparse(s) ==
    LET first == IF startswith(s, HttpsPrefix) THEN Len(HttpsPrefix) + 1
                 ELSE Len(HttpPrefix) + 1
        stops == {k \in first..Len(s) : s[k] \in {"/", "?", "#"}}
        last  == IF stops = {} THEN Len(s) ELSE SetMin(stops) - 1
        netloc == SubSeq(s, first, last)
        open  == \E k \in 1..Len(netloc) : netloc[k] = "["
        close == \E k \in 1..Len(netloc) : netloc[k] = "]"
    IN  [raises |-> open # close, netloc |-> netloc]

\* [a-zA-Z0-9]([a-zA-Z0-9\-]{0,61}[a-zA-Z0-9])?
LabelOK(l) ==
    /\ Len(l) >= 1
    /\ Len(l) <= 63
    /\ IsAlnum(l[1])
    /\ IsAlnum(l[Len(l)])
    /\ \A k \in 1..Len(l) : IsAlnum(l[k]) \/ l[k] = "-"

\* [a-zA-Z]{2,}
TldOK(l) == Len(l) >= 2 /\ \A k \in 1..Len(l) : IsAlpha(l[k])

\* The pieces between the dots of s, each as <<a, b>>: the piece lies
\* strictly between positions a and b.
Pieces(s) ==
    LET cuts == {0} \cup {k \in 1..Len(s) : s[k] = "."} \cup {Len(s) + 1}
    IN  { <<a, SetMin({c \in cuts : c > a})>> : a \in cuts \ {Len(s) + 1} }

\* re.match(r"^(label\.)+tld$", domain): one or more labels, each followed
\* by a dot, then the TLD; neither a label nor the TLD holds a dot.
is_valid_domain(domain) ==
    /\ Cardinality(Pieces(domain)) >= 2
    /\ \A g \in Pieces(domain) :
          IF g[2] = Len(domain) + 1
          THEN TldOK(SubSeq(domain, g[1] + 1, g[2] - 1))
          ELSE LabelOK(SubSeq(domain, g[1] + 1, g[2] - 1))

\* Lines 49-52: strip, lower, and the authority of a text with a scheme.
\* raises: urlparse raised ValueError.
normalize(raw) ==
    CHOOSE result \in
        { IF startswith(d, HttpPrefix) \/ startswith(d, HttpsPrefix)
          THEN [raises |-> urlparse(d).raises, domain |-> urlparse(d).netloc]
          ELSE [raises |-> FALSE, domain |-> d]
          : d \in {lower(t) : t \in {strip(raw)}} } : TRUE

\* str(n) of a non-negative integer
RECURSIVE IntToStr(_)
IntToStr(n) ==
    IF n < 10 THEN <<Digits[n + 1]>>
    ELSE IntToStr(n \div 10) \o <<Digits[(n % 10) + 1]>>

\* ------------------------------------------------------------ values
\* Optional values: None, or a value.
NoStr == [some |-> FALSE, v |-> ""]
SomeStr(x) == [some |-> TRUE, v |-> x]
NoText == [some |-> FALSE, v |-> <<>>]
SomeText(t) == [some |-> TRUE, v |-> t]

\* Error descriptions (f-strings of lines 81, 83, 85, 94, 97 and the fixed
\* texts of lines 47, 55, 59): the template, and the values put into it.
ErrorText(msg, n, protocol) == [msg |-> msg, n |-> n, protocol |-> protocol]
NoError == [some |-> FALSE, v |-> ErrorText("", 0, "")]
SomeError(e) == [some |-> TRUE, v |-> e]

\* http_status is an int or one of three texts.
IntStatus(code) == [is_int |-> TRUE, code |-> code, text |-> ""]
StrStatus(text) == [is_int |-> FALSE, code |-> 0, text |-> text]

ProbeResult(dns, ip, status, url, protocol, error) ==
    [dns_resolves |-> dns, ip_address |-> ip, http_status |-> status,
     final_url |-> url, protocol |-> protocol, error |-> error]

\* Lines 47 and 55
InvalidDomainResult ==
    ProbeResult(FALSE, NoStr, StrStatus("Invalid Domain"), NoText, NoStr,
                SomeError(ErrorText("Invalid domain format", 0, "")))

\* Line 59
DnsNotResolvingResult ==
    ProbeResult(FALSE, NoStr, StrStatus("DNS Not Resolving"), NoText, NoStr,
                SomeError(ErrorText("DNS resolution failed", 0, "")))

\* The result after both attempts failed if it named the last protocol tried.
ConnectionFailedResult_with_protocol(ip, error) ==
    ProbeResult(TRUE, SomeStr(ip), StrStatus("Connection Failed"), NoText,
                SomeStr("http"), SomeError(error))

\* Lines 99-106
ConnectionFailedResult(ip, error) ==
    ProbeResult(TRUE, SomeStr(ip), StrStatus("Connection Failed"), NoText,
                NoStr, SomeError(error))

\* The result of a response if it named the first protocol of the list
\* instead of the loop's.
ResponseResult_first_protocol(ip, code, url, protocol) ==
    ProbeResult(TRUE, SomeStr(ip), IntStatus(code), SomeText(url),
                SomeStr("https"), NoError)

\* Lines 72-79
ResponseResult(ip, code, url, protocol) ==
    ProbeResult(TRUE, SomeStr(ip), IntStatus(code), SomeText(url),
                SomeStr(protocol), NoError)

\* The result of an HTTPStatusError if it dropped the description.
HTTPStatusErrorResult_no_error(ip, code, url, protocol) ==
    ProbeResult(TRUE, SomeStr(ip), IntStatus(code), SomeText(url),
                SomeStr(protocol), NoError)

\* Lines 88-95
HTTPStatusErrorResult(ip, code, url, protocol) ==
    ProbeResult(TRUE, SomeStr(ip), IntStatus(code), SomeText(url),
                SomeStr(protocol),
                SomeError(ErrorText("str(HTTPStatusError)", code, "")))

\* A task that has not returned holds no result.
NoResult ==
    ProbeResult(FALSE, NoStr, StrStatus(""), NoText, NoStr, NoError)

\* The list of line 61 the other way round.
protocols_reversed == <<"http", "https">>

\* Line 61
protocols == <<"https", "http">>

ProtocolText(protocol) ==
    IF protocol = "https" THEN <<"h","t","t","p","s">> ELSE <<"h","t","t","p">>

\* Line 63: f"{protocol}://{domain}"
BuildUrl(protocol, domain) ==
    ProtocolText(protocol) \o <<":","/","/">> \o domain

\* Lines 80-85, 96-97: the description recorded for a transport error.
TransportErrorText(kind, protocol) ==
    CASE kind = "TimeoutException" ->
            ErrorText("Timeout after {TIMEOUT}s", TIMEOUT, "")
      [] kind = "TooManyRedirects" ->
            ErrorText("Too many redirects (>={MAX_REDIRECTS})", MAX_REDIRECTS, "")
      [] kind = "ConnectError" ->
            ErrorText("Connection refused on {protocol}", 0, protocol)
      [] OTHER ->
            ErrorText("Error: {str(e)}", 0, "")

\* classify_status with the upper ends of the ranges included.
classify_status_closed_ranges(dns_resolves, http_status) ==
    IF ~dns_resolves THEN "Inactive (DNS not resolving)"
    ELSE IF http_status.is_int /\ 200 <= http_status.code /\ http_status.code <= 400
         THEN "Active"
    ELSE IF http_status.is_int /\ 400 <= http_status.code /\ http_status.code <= 500
         THEN "Client Error"
    ELSE IF http_status.is_int /\ 500 <= http_status.code /\ http_status.code <= 600
         THEN "Server Error"
    ELSE "Inactive (Connection Failed)"

\* Lines 149-158
classify_status(dns_resolves, http_status) ==
    IF ~dns_resolves THEN "Inactive (DNS not resolving)"
    ELSE IF http_status.is_int /\ 200 <= http_status.code /\ http_status.code < 400
         THEN "Active"
    ELSE IF http_status.is_int /\ 400 <= http_status.code /\ http_status.code < 500
         THEN "Client Error"
    ELSE IF http_status.is_int /\ 500 <= http_status.code /\ http_status.code < 600
         THEN "Server Error"
    ELSE "Inactive (Connection Failed)"

\* ------------------------------------------------------------ environment
\* The cells of the Domain column as read_excel gives them: texts, empty
\* cells (NaN) and numbers.
StrCell(t) == [kind |-> "str", s |-> t, n |-> 0]
NaNCell == [kind |-> "nan", s |-> <<>>, n |-> 0]
IntCell(n) == [kind |-> "int", s |-> <<>>, n |-> n]

Cells ==
    { StrCell(<<"a",".","c","o">>),
      StrCell(<<" ","H","T","T","P","S",":","/","/","B",".","i","o","/","p"," ">>),
      NaNCell,
      StrCell(<<" ">>),
      StrCell(<<"n","o","t"," ","a"," ","d","o","m","a","i","n">>),
      StrCell(<<"h","t","t","p",":","/","/","[">>),
      IntCell(42) }

\* What read_excel does (line 118): the sheet is read and has the Domain
\* column, is read and lacks it, or cannot be read.
Sheets ==
    { [status |-> "ok", column |-> c] : c \in [1..NumDomains -> Cells] }
    \cup { [status |-> s, column |-> <<>>] : s \in {"no_column", "read_error"} }

\* Line 125 and 127: fillna("") and astype(str).
CellToStr(cell) ==
    CASE cell.kind = "nan" -> <<>>
      [] cell.kind = "int" -> IntToStr(cell.n)
      [] OTHER -> cell.s

\* What socket.gethostbyname does (line 34): an address, socket.gaierror, or
\* another exception (UnicodeError from the idna codec for a label of 64 or
\* more characters, OSError for EAI_SYSTEM).
DnsOutcomes ==
    { [kind |-> "address", ip |-> "192.0.2.1"],
      [kind |-> "gaierror", ip |-> ""],
      [kind |-> "other_error", ip |-> ""] }

\* The status codes a response arrives with, and those an HTTPStatusError
\* carries, in these runs.
ResponseCodes == {200, 503}
ErrorCodes == {404, 503}
RedirectedUrl == <<"h","t","t","p","s",":","/","/","w",".","a",".","c","o","/">>
TransportErrors ==
    {"TimeoutException", "TooManyRedirects", "ConnectError", "Exception"}

\* str(response.url): the requested URL, or for a followed redirect (here
\* one that ends in 200) the URL it led to.
FinalUrls(url, code) == IF code = 200 THEN {url, RedirectedUrl} ELSE {url}

\* What `await client.get(url)` does (line 71): a response with a status
\* code and a final URL, or one of the exceptions lines 80-96 name.
HttpOutcomes(url) ==
    { o \in [kind : {"response"}, code : ResponseCodes,
             url : {url, RedirectedUrl}] : o.url \in FinalUrls(url, o.code) }
    \cup { [kind |-> "HTTPStatusError", code |-> c, url |-> url] :
            c \in ErrorCodes }
    \cup { [kind |-> k, code |-> 0, url |-> <<>>] : k \in TransportErrors }

\* ------------------------------------------------------------ state
Tasks == 1..NumDomains

VARIABLES
    sheet,          \* what read_excel will give
    max_concurrent, \* MAX_CONCURRENT of this run
    mainpc,         \* where main() is
    domains,        \* main's list `domains`
    sem_value,      \* semaphore._value
    sem_waiters,    \* semaphore._waiters: the tasks whose future is queued
    pc,             \* where each task is
    running,        \* the task holding the thread, 0 when none does
    arg,            \* the argument each task was created with
    domain,         \* check_website_status's local `domain`
    ip_address,     \* check_website_status's local `ip_address`
    k_protocol,     \* position of the for loop of line 62 in `protocols`
    error,          \* check_website_status's local `error`
    task_result,    \* what each task returned
    overtaken,      \* a task returned before one created earlier had ended
    dns_log,        \* the calls of socket.gethostbyname made by each task
    http_log,       \* the calls of client.get made by each task
    output,         \* the rows given to to_excel
    error_logs      \* how many times main logged an error

vars == <<sheet, max_concurrent, mainpc, domains, sem_value, sem_waiters, pc,
          running, arg, domain, ip_address, k_protocol, error, task_result,
          overtaken, dns_log, http_log, output, error_logs>>

taskLocals == <<arg, domain, ip_address, k_protocol, error>>
mainVars == <<sheet, max_concurrent, mainpc, domains, output, error_logs>>

Init ==
    /\ sheet \in Sheets
    /\ max_concurrent \in 1..MaxPermits
    /\ mainpc = "start"
    /\ domains = <<>>
    /\ sem_value = 0
    /\ sem_waiters = <<>>
    /\ pc = [i \in Tasks |-> "none"]
    /\ running = 0
    /\ arg = [i \in Tasks |-> <<>>]
    /\ domain = [i \in Tasks |-> <<>>]
    /\ ip_address = [i \in Tasks |-> ""]
    /\ k_protocol = [i \in Tasks |-> 0]
    /\ error = [i \in Tasks |-> NoError]
    /\ task_result = [i \in Tasks |-> NoResult]
    /\ overtaken = FALSE
    /\ dns_log = [i \in Tasks |-> <<>>]
    /\ http_log = [i \in Tasks |-> <<>>]
    /\ output = <<>>
    /\ error_logs = 0

\* ------------------------------------------------------------ semaphore
\* Semaphore.locked(): no permit left, or a queued future that is not
\* cancelled (a cancelled future leaves the queue in the step that cancels it).
locked == sem_value = 0 \/ sem_waiters # <<>>

Without(q, i) == SelectSeq(q, LAMBDA j : j # i)

\* Semaphore._wake_up_next() after the permits became `value` and the tasks'
\* places `p`: the first queued future that is not done gets the permit.
WakeUpNext(value, p, waiters) ==
    LET pending == {n \in 1..Len(waiters) : p[waiters[n]] = "waiting"}
    IN  IF pending = {}
        THEN /\ sem_value' = value
             /\ pc' = p
        ELSE /\ sem_value' = value - 1
             /\ pc' = [p EXCEPT ![waiters[SetMin(pending)]] = "woken"]

\* Leaving `async with semaphore` (line 110) with task i at place `to`:
\* Semaphore.release().
Release(i, to) ==
    /\ WakeUpNext(sem_value + 1, [pc EXCEPT ![i] = to], sem_waiters)
    /\ sem_waiters' = sem_waiters

\* ------------------------------------------------------------ event loop
\* The loop runs what is ready in the order it became ready.  The tasks are
\* made ready by create_task (line 134) in the order of the rows, before main
\* waits; so each task takes its first run, in that order, before any
\* exchange ends, any waiter goes on or main goes on.
FirstRunsDone == \A j \in Tasks : pc[j] # "ready"
NextToStart(i) == \A j \in 1..(i - 1) : pc[j] # "ready"

\* ------------------------------------------------------------ main
\* gather as a collector that hands the results back in the order the tasks
\* returned (what asyncio.as_completed would give).
Gather_in_completion_order ==
    [i \in 1..Len(domains) |->
        IF overtaken THEN task_result[Len(domains) + 1 - i] ELSE task_result[i]]

\* asyncio.gather(*tasks): the results in the order of the tasks.
Gather == [i \in 1..Len(domains) |-> task_result[i]]

\* Lines 142-160: the columns added to the sheet, and the category.
OutputRow(d, r) ==
    [domain |-> d,
     dns_resolves |-> r.dns_resolves,
     ip_address |-> r.ip_address,
     http_status |-> r.http_status,
     final_url |-> r.final_url,
     protocol |-> r.protocol,
     error |-> r.error,
     category |-> classify_status(r.dns_resolves, r.http_status)]

\* main up to its await if the column check raised after logging instead of
\* returning: the handler of line 181 logs the failure a second time.
MainStart_column_check_raises ==
    /\ mainpc = "start"
    /\ UNCHANGED <<sheet, max_concurrent, sem_waiters, running, domain,
                   ip_address, k_protocol, error, task_result, overtaken,
                   dns_log, http_log, output>>
    /\ CASE sheet.status = "read_error" ->
              /\ mainpc' = "failed"
              /\ error_logs' = error_logs + 1
              /\ UNCHANGED <<domains, sem_value, pc, arg>>
         [] sheet.status = "no_column" ->
              /\ mainpc' = "failed"
              /\ error_logs' = error_logs + 2
              /\ UNCHANGED <<domains, sem_value, pc, arg>>
         [] OTHER ->
              /\ mainpc' = "gather"
              /\ domains' = [i \in 1..Len(sheet.column) |-> CellToStr(sheet.column[i])]
              /\ sem_value' = max_concurrent
              /\ pc' = [i \in Tasks |-> "ready"]
              /\ arg' = [i \in Tasks |-> CellToStr(sheet.column[i])]
              /\ UNCHANGED error_logs

\* Lines 114-140: main up to its await.  Reading fails (the handler of line
\* 181 logs it), the column is missing (line 122 logs it), or the tasks are
\* created and main waits in gather.
MainStart ==
    /\ mainpc = "start"
    /\ UNCHANGED <<sheet, max_concurrent, sem_waiters, running, domain,
                   ip_address, k_protocol, error, task_result, overtaken,
                   dns_log, http_log, output>>
    /\ CASE sheet.status = "read_error" ->
              /\ mainpc' = "failed"
              /\ error_logs' = error_logs + 1
              /\ UNCHANGED <<domains, sem_value, pc, arg>>
         [] sheet.status = "no_column" ->
              /\ mainpc' = "no_column"
              /\ error_logs' = error_logs + 1
              /\ UNCHANGED <<domains, sem_value, pc, arg>>
         [] OTHER ->
              /\ mainpc' = "gather"
              /\ domains' = [i \in 1..Len(sheet.column) |-> CellToStr(sheet.column[i])]
              /\ sem_value' = max_concurrent
              /\ pc' = [i \in Tasks |-> "ready"]
              /\ arg' = [i \in Tasks |-> CellToStr(sheet.column[i])]
              /\ UNCHANGED error_logs

\* Lines 140-179: every task returned, gather gives their results, the rows
\* are classified and written.
MainFinish ==
    /\ mainpc = "gather"
    /\ running = 0
    /\ FirstRunsDone
    /\ \A i \in Tasks : pc[i] = "done"
    /\ mainpc' = "finished"
    /\ output' = [i \in 1..Len(domains) |-> OutputRow(domains[i], Gather[i])]
    /\ UNCHANGED <<sheet, max_concurrent, domains, error_logs, sem_value,
                   sem_waiters, pc, running, taskLocals, task_result,
                   overtaken, dns_log, http_log>>

\* Lines 140 and 181-182: gather raises the exception of the first task that
\* ended with one; main's handler logs it and main returns.
MainFail ==
    /\ mainpc = "gather"
    /\ running = 0
    /\ FirstRunsDone
    /\ \E i \in Tasks : pc[i] = "raised"
    /\ mainpc' = "failed"
    /\ error_logs' = error_logs + 1
    /\ UNCHANGED <<sheet, max_concurrent, domains, output, sem_value,
                   sem_waiters, pc, running, taskLocals, task_result,
                   overtaken, dns_log, http_log>>

\* ------------------------------------------------------------ tasks
\* The end of check_website_status if `ip_address` and `error` were globals
\* of the module, shared by the tasks.
EndFrame_shared_locals(i) ==
    /\ domain' = [domain EXCEPT ![i] = <<>>]
    /\ ip_address' = [j \in Tasks |-> ""]
    /\ k_protocol' = [k_protocol EXCEPT ![i] = 0]
    /\ error' = [j \in Tasks |-> NoError]

\* check_website_status ends: its locals are gone.
EndFrame(i) ==
    /\ domain' = [domain EXCEPT ![i] = <<>>]
    /\ ip_address' = [ip_address EXCEPT ![i] = ""]
    /\ k_protocol' = [k_protocol EXCEPT ![i] = 0]
    /\ error' = [error EXCEPT ![i] = NoError]

Ended == {"done", "raised", "cancelled"}

\* `return result` inside `async with semaphore` (lines 110-111).
Return(i, result) ==
    /\ task_result' = [task_result EXCEPT ![i] = result]
    /\ overtaken' = (overtaken \/ \E j \in 1..(i - 1) : pc[j] \notin Ended)
    /\ Release(i, "done")
    /\ running' = 0
    /\ EndFrame(i)

\* An exception leaving a task that took its slot with acquire() and no
\* `async with`: the slot is not given back.
Raise_keeps_slot(i) ==
    /\ pc' = [pc EXCEPT ![i] = "raised"]
    /\ UNCHANGED <<sem_value, sem_waiters>>
    /\ running' = 0
    /\ EndFrame(i)
    /\ UNCHANGED <<task_result, overtaken>>

\* An exception leaves check_website_status and `async with semaphore`.
Raise(i) ==
    /\ Release(i, "raised")
    /\ running' = 0
    /\ EndFrame(i)
    /\ UNCHANGED <<task_result, overtaken>>

\* process_batch without the semaphore: the task goes on whatever is free.
TaskAcquire_unbounded(i) ==
    /\ mainpc = "gather"
    /\ running = 0
    /\ pc[i] = "ready"
    /\ NextToStart(i)
    /\ sem_value' = sem_value - 1
    /\ pc' = [pc EXCEPT ![i] = "validate"]
    /\ running' = i
    /\ UNCHANGED <<sem_waiters, mainVars, taskLocals, task_result, overtaken,
                   dns_log, http_log>>

\* Line 110, first run of the task: Semaphore.acquire() takes a permit, or
\* queues a future and waits for it.
TaskAcquire(i) ==
    /\ mainpc = "gather"
    /\ running = 0
    /\ pc[i] = "ready"
    /\ NextToStart(i)
    /\ IF ~locked
       THEN /\ sem_value' = sem_value - 1
            /\ pc' = [pc EXCEPT ![i] = "validate"]
            /\ running' = i
            /\ UNCHANGED sem_waiters
       ELSE /\ sem_waiters' = Append(sem_waiters, i)
            /\ pc' = [pc EXCEPT ![i] = "waiting"]
            /\ UNCHANGED <<sem_value, running>>
    /\ UNCHANGED <<mainVars, taskLocals, task_result, overtaken, dns_log, http_log>>

\* Semaphore.acquire() after `await fut`: the future leaves the queue, and a
\* permit left over goes to the next waiter.
TaskResume(i) ==
    /\ mainpc = "gather"
    /\ running = 0
    /\ FirstRunsDone
    /\ pc[i] = "woken"
    /\ sem_waiters' = Without(sem_waiters, i)
    /\ IF sem_value > 0
       THEN WakeUpNext(sem_value, [pc EXCEPT ![i] = "validate"], sem_waiters')
       ELSE /\ pc' = [pc EXCEPT ![i] = "validate"]
            /\ UNCHANGED sem_value
    /\ running' = i
    /\ UNCHANGED <<mainVars, taskLocals, task_result, overtaken, dns_log, http_log>>

\* Lines 49-54 applied to each text main can pass: whether urlparse raises,
\* the normalised domain, and what is_valid_domain says of it.
Raws == {CellToStr(c) : c \in Cells}
Checked ==
    { [raw    |-> c.raw,
       raises |-> c.n.raises,
       domain |-> c.n.domain,
       valid  |-> is_valid_domain(c.n.domain)]
      : c \in { [raw |-> raw, n |-> normalize(raw)] : raw \in Raws } }
CheckedOf(raw) == CHOOSE c \in Checked : c.raw = raw

\* Lines 46-55: the empty text is rejected, the text is normalised (urlparse
\* may raise), and the pattern decides.
TaskValidate(i) ==
    /\ running = i
    /\ pc[i] = "validate"
    /\ UNCHANGED <<mainVars, arg, dns_log, http_log>>
    /\ IF arg[i] = <<>>
       THEN Return(i, InvalidDomainResult)
       ELSE IF CheckedOf(arg[i]).raises
       THEN Raise(i)
       ELSE IF ~CheckedOf(arg[i]).valid
       THEN Return(i, InvalidDomainResult)
       ELSE /\ domain' = [domain EXCEPT ![i] = CheckedOf(arg[i]).domain]
            /\ pc' = [pc EXCEPT ![i] = "dns"]
            /\ UNCHANGED <<sem_value, sem_waiters, running, task_result,
                           overtaken, ip_address, k_protocol, error>>

\* An entry of http_log: the request made, and how it ended.
Attempt(protocol, url, outcome) ==
    [protocol |-> protocol, url |-> url, outcome |-> outcome]

Pending == [kind |-> "pending", code |-> 0, url |-> <<>>]

\* The outcome kept of a failed attempt once the loop has moved on: its
\* description is in `error` until the next one overwrites it.
Superseded == [kind |-> "transport_error", code |-> 0, url |-> <<>>]

\* Lines 57-59 and resolve_dns (31-37): gethostbyname blocks the thread; an
\* address starts the first request (62-71) and the task waits for the
\* exchange, gaierror gives the DNS result, any other exception leaves the
\* task.
TaskResolve(i) ==
    /\ running = i
    /\ pc[i] = "dns"
    /\ UNCHANGED <<mainVars, arg>>
    /\ \E o \in DnsOutcomes :
        /\ dns_log' = [dns_log EXCEPT ![i] =
                Append(@, [domain |-> domain[i], outcome |-> o.kind, ip |-> o.ip])]
        /\ CASE o.kind = "address" ->
                  /\ ip_address' = [ip_address EXCEPT ![i] = o.ip]
                  /\ k_protocol' = [k_protocol EXCEPT ![i] = 1]
                  /\ http_log' = [http_log EXCEPT ![i] =
                        Append(@, Attempt(protocols[1],
                                          BuildUrl(protocols[1], domain[i]),
                                          Pending))]
                  /\ pc' = [pc EXCEPT ![i] = "request"]
                  /\ running' = 0
                  /\ UNCHANGED <<sem_value, sem_waiters, task_result, overtaken,
                                 domain, error>>
             [] o.kind = "gaierror" ->
                  /\ Return(i, DnsNotResolvingResult)
                  /\ UNCHANGED http_log
             [] OTHER ->
                  /\ Raise(i)
                  /\ UNCHANGED http_log

\* `error` if the first description were kept (error = error or ...).
RecordError_keep_first(old, kind, protocol) ==
    IF old.some THEN old ELSE SomeError(TransportErrorText(kind, protocol))

\* Lines 81, 83, 85, 97: `error = ...` replaces what `error` held.
RecordError(old, kind, protocol) == SomeError(TransportErrorText(kind, protocol))

\* The entry of the request in flight gets its outcome.
Logged(i, what) ==
    [http_log[i] EXCEPT ![Len(http_log[i])].outcome = what]

\* Lines 71-97: the exchange of the request in flight ends.  A response and
\* an HTTPStatusError return at once; a transport error is described in
\* `error` and the loop goes on to the next protocol, or ends (99-106).
TaskHttp(i) ==
    /\ mainpc = "gather"
    /\ running = 0
    /\ FirstRunsDone
    /\ pc[i] = "request"
    /\ UNCHANGED <<mainVars, arg, dns_log>>
    /\ LET k == k_protocol[i]
           protocol == protocols[k]
       IN \E o \in HttpOutcomes(BuildUrl(protocol, domain[i])) :
            CASE o.kind = "response" ->
                  /\ http_log' = [http_log EXCEPT ![i] = Logged(i, o)]
                  /\ Return(i, ResponseResult(ip_address[i], o.code, o.url, protocol))
              [] o.kind = "HTTPStatusError" ->
                  /\ http_log' = [http_log EXCEPT ![i] = Logged(i, o)]
                  /\ Return(i, HTTPStatusErrorResult(ip_address[i], o.code, o.url, protocol))
              [] OTHER ->
                  IF k < Len(protocols)
                  THEN /\ error' = [error EXCEPT ![i] =
                                RecordError(error[i], o.kind, protocol)]
                       /\ k_protocol' = [k_protocol EXCEPT ![i] = k + 1]
                       /\ http_log' = [http_log EXCEPT ![i] =
                             Append(Logged(i, Superseded),
                                    Attempt(protocols[k + 1],
                                            BuildUrl(protocols[k + 1], domain[i]),
                                            Pending))]
                       /\ UNCHANGED <<sem_value, sem_waiters, pc, running,
                                      task_result, overtaken, domain,
                                      ip_address>>
                  ELSE /\ http_log' = [http_log EXCEPT ![i] = Logged(i, o)]
                       /\ Return(i, ConnectionFailedResult(ip_address[i],
                                    RecordError(error[i], o.kind, protocol).v))

\* asyncio.run (line 185) after main returned: every task not yet done is
\* cancelled.  CancelledError is raised in the task where it waits: in
\* Semaphore.acquire (a future not yet done is cancelled and leaves the
\* queue; one already done gives its permit back), or in client.get, where
\* no handler of lines 80-96 catches it and the semaphore is released.
TaskCancelled(i) ==
    /\ mainpc \in {"finished", "failed"}
    /\ running = 0
    /\ pc[i] \in {"waiting", "woken", "request"}
    /\ CASE pc[i] = "waiting" ->
              /\ pc' = [pc EXCEPT ![i] = "cancelled"]
              /\ sem_waiters' = Without(sem_waiters, i)
              /\ UNCHANGED sem_value
         [] pc[i] = "woken" ->
              /\ sem_waiters' = Without(sem_waiters, i)
              /\ WakeUpNext(sem_value + 1, [pc EXCEPT ![i] = "cancelled"], sem_waiters')
         [] OTHER ->
              Release(i, "cancelled")
    /\ EndFrame(i)
    /\ UNCHANGED <<mainVars, running, arg, task_result, overtaken, dns_log, http_log>>

Next ==
    \/ MainStart
    \/ MainFinish
    \/ MainFail
    \/ \E i \in Tasks : TaskAcquire(i)
    \/ \E i \in Tasks : TaskResume(i)
    \/ \E i \in Tasks : TaskValidate(i)
    \/ \E i \in Tasks : TaskResolve(i)
    \/ \E i \in Tasks : TaskHttp(i)
    \/ \E i \in Tasks : TaskCancelled(i)

Spec == Init /\ [][Next]_vars

\* The event loop runs every task that can run, every DNS call and every
\* HTTP exchange ends, and main goes on when gather lets it.
TaskStep(i) ==
    \/ TaskAcquire(i)
    \/ TaskResume(i)
    \/ TaskValidate(i)
    \/ TaskResolve(i)
    \/ TaskHttp(i)
    \/ TaskCancelled(i)

FairSpec ==
    /\ Spec
    /\ WF_vars(MainStart)
    /\ WF_vars(MainFinish)
    /\ WF_vars(MainFail)
    /\ \A i \in Tasks : WF_vars(TaskStep(i))

\* ------------------------------------------------------------ claims
RowResult(row) ==
    ProbeResult(row.dns_resolves, row.ip_address, row.http_status,
                row.final_url, row.protocol, row.error)

HoldsSlot(i) == pc[i] \in {"validate", "dns", "request"}
InNetworkPhase(i) == pc[i] \in {"dns", "request"}
BeforeSlot(i) == pc[i] \in {"ready", "waiting", "woken"}

\* C1: a run that writes output writes one row per input, and row i holds
\* input i and the result returned by the task created for input i, whatever
\* the order the tasks returned in.
C1_OneResultPerInputInOrder ==
    mainpc = "finished" =>
        /\ Len(output) = Len(sheet.column)
        /\ \A i \in 1..Len(output) :
              /\ output[i].domain = CellToStr(sheet.column[i])
              /\ arg[i] = output[i].domain
              /\ RowResult(output[i]) = task_result[i]

C1_Witness ==
    /\ mainpc = "finished"
    /\ overtaken
    /\ Len(output) >= 2
    /\ RowResult(output[1]) # RowResult(output[2])
    /\ output[1].http_status.is_int
    /\ output[1].domain # output[2].domain

\* C2: at most max_concurrent tasks are in their network phase (DNS call or
\* request in flight), and a task that has no slot yet has made no network call.
C2_ConcurrencyBound ==
    /\ Cardinality({i \in Tasks : InNetworkPhase(i)}) <= max_concurrent
    /\ Cardinality({i \in Tasks : HoldsSlot(i)}) <= max_concurrent
    /\ \A i \in Tasks :
          BeforeSlot(i) => dns_log[i] = <<>> /\ http_log[i] = <<>>

C2_Witness ==
    /\ Cardinality({i \in Tasks : pc[i] = "request"}) = max_concurrent
    /\ \E i \in Tasks : pc[i] = "waiting"

\* C3: no error of a single domain leaves its task, and main
\* never ends in its exception handler because of one.
C3_NoPerDomainErrorEscapes ==
    /\ \A i \in Tasks : pc[i] # "raised"
    /\ mainpc = "failed" => sheet.status = "read_error"

\* C4: once main is past gather, every task has ended with its
\* result (or its failure); gather never lets main go on while a task still
\* waits or runs.
C4_GatherWaitsForAll ==
    (sheet.status = "ok" /\ mainpc \in {"finished", "failed"}) =>
        \A i \in Tasks : pc[i] \in {"done", "raised"}

\* C5: once the tasks are created, every task eventually gets a
\* slot, runs to its end (a result or an exception) and releases the slot, so
\* the run ends with all tasks finished and all permits free.
C5_RunCompletes ==
    (mainpc = "gather") ~>
        (/\ mainpc \in {"finished", "failed"}
         /\ \A i \in Tasks : pc[i] \in {"done", "raised"}
         /\ sem_value = max_concurrent)

\* C6: the requests of a task go https then http, each protocol at most once,
\* the http one only after the https one ended in a transport error, all of
\* them after the one DNS call that gave an address and for the domain it was
\* asked for; a task that returned left no request in flight.
C6_HttpsThenHttpOnceEach ==
    \A i \in Tasks :
        /\ Len(dns_log[i]) <= 1
        /\ Len(http_log[i]) <= 2
        /\ http_log[i] # <<>> =>
              /\ Len(dns_log[i]) = 1
              /\ dns_log[i][1].outcome = "address"
              /\ http_log[i][1].protocol = "https"
              /\ http_log[i][1].url = BuildUrl("https", dns_log[i][1].domain)
        /\ Len(http_log[i]) = 2 =>
              /\ http_log[i][1].outcome.kind = "transport_error"
              /\ http_log[i][2].protocol = "http"
              /\ http_log[i][2].url = BuildUrl("http", dns_log[i][1].domain)
        /\ pc[i] = "done" =>
              \A k \in 1..Len(http_log[i]) : http_log[i][k].outcome # Pending

C6_Witness ==
    \E i \in Tasks :
        /\ pc[i] = "request"
        /\ Len(http_log[i]) = 2
        /\ http_log[i][1].outcome.kind = "transport_error"
        /\ http_log[i][2].protocol = "http"
        /\ http_log[i][2].outcome = Pending

\* C7: a request answered by a response is the task's last: the task has
\* returned with the response's code, its final URL, the protocol of that
\* request and no error, also when the https request had failed before.
C7_ResponseReturnsAtOnce ==
    \A i \in Tasks : \A k \in 1..Len(http_log[i]) :
        http_log[i][k].outcome.kind = "response" =>
            /\ k = Len(http_log[i])
            /\ pc[i] = "done"
            /\ task_result[i] =
                  ProbeResult(TRUE, SomeStr(dns_log[i][1].ip),
                              IntStatus(http_log[i][k].outcome.code),
                              SomeText(http_log[i][k].outcome.url),
                              SomeStr(http_log[i][k].protocol), NoError)
            /\ mainpc = "finished" =>
                  /\ RowResult(output[i]) = task_result[i]
                  /\ output[i].category =
                        classify_status(TRUE, IntStatus(http_log[i][k].outcome.code))

C7_Witness ==
    \E i \in Tasks :
        /\ mainpc = "finished"
        /\ Len(http_log[i]) = 2
        /\ http_log[i][1].outcome.kind = "transport_error"
        /\ http_log[i][2].outcome.kind = "response"
        /\ http_log[i][2].outcome.code = 200
        /\ output[i].protocol = SomeStr("http")
        /\ output[i].error = NoError
        /\ output[i].category = "Active"

\* C8: when the https and the http request both ended in a transport error,
\* the task has returned the resolved address, Connection Failed, no URL, no
\* protocol and the description of the http error, and its row is
\* Inactive (Connection Failed).
C8_BothFailGivesConnectionFailed ==
    \A i \in Tasks :
        (Len(http_log[i]) = 2 /\ http_log[i][2].outcome.kind \in TransportErrors) =>
            /\ pc[i] = "done"
            /\ task_result[i] =
                  ProbeResult(TRUE, SomeStr(dns_log[i][1].ip),
                              StrStatus("Connection Failed"), NoText, NoStr,
                              SomeError(TransportErrorText(
                                  http_log[i][2].outcome.kind, "http")))
            /\ mainpc = "finished" =>
                  /\ RowResult(output[i]) = task_result[i]
                  /\ output[i].category = "Inactive (Connection Failed)"

C8_Witness ==
    \E i \in Tasks :
        /\ mainpc = "finished"
        /\ Len(http_log[i]) = 2
        /\ http_log[i][1].outcome.kind = "transport_error"
        /\ http_log[i][2].outcome.kind = "ConnectError"
        /\ output[i].error.v = ErrorText("Connection refused on {protocol}", 0, "http")
        /\ output[i].category = "Inactive (Connection Failed)"

\* The category of a 4xx or 5xx code.
ErrorCategory(code) == IF code < 500 THEN "Client Error" ELSE "Server Error"

\* C9: a request that ended in an HTTPStatusError is the task's last: the
\* task has returned with the error's status code, the error's URL, the
\* protocol of that request and a description, and its row has the category
\* of the code, not Inactive (Connection Failed).
C9_HTTPStatusErrorReturnsAtOnce ==
    \A i \in Tasks : \A k \in 1..Len(http_log[i]) :
        http_log[i][k].outcome.kind = "HTTPStatusError" =>
            /\ k = Len(http_log[i])
            /\ pc[i] = "done"
            /\ task_result[i].dns_resolves
            /\ task_result[i].ip_address = SomeStr(dns_log[i][1].ip)
            /\ task_result[i].http_status = IntStatus(http_log[i][k].outcome.code)
            /\ task_result[i].final_url = SomeText(http_log[i][k].outcome.url)
            /\ task_result[i].protocol = SomeStr(http_log[i][k].protocol)
            /\ task_result[i].error.some
            /\ mainpc = "finished" =>
                  /\ RowResult(output[i]) = task_result[i]
                  /\ output[i].category = ErrorCategory(http_log[i][k].outcome.code)

C9_Witness ==
    \E i \in Tasks :
        /\ mainpc = "finished"
        /\ Len(http_log[i]) = 1
        /\ http_log[i][1].outcome.kind = "HTTPStatusError"
        /\ http_log[i][1].outcome.code = 404
        /\ output[i].http_status = IntStatus(404)
        /\ output[i].protocol = SomeStr("https")
        /\ output[i].error.some
        /\ output[i].category = "Client Error"

\* A raw input fails validation when it is empty or its normalised form is
\* no hostname.
FailsValidation(raw) ==
    \/ raw = <<>>
    \/ normalize(raw).raises
    \/ ~is_valid_domain(normalize(raw).domain)

\* C10: a task whose input fails validation returns the
\* Invalid Domain result, and makes no DNS call and no request.
C10_InvalidInputYieldsInvalidDomain ==
    \A i \in Tasks :
        (mainpc # "start" /\ sheet.status = "ok" /\ FailsValidation(arg[i])) =>
            /\ dns_log[i] = <<>>
            /\ http_log[i] = <<>>
            /\ pc[i] \in {"done", "raised"} =>
                  /\ pc[i] = "done"
                  /\ task_result[i].dns_resolves = FALSE
                  /\ task_result[i].ip_address = NoStr
                  /\ task_result[i].http_status = StrStatus("Invalid Domain")
                  /\ task_result[i].final_url = NoText
                  /\ task_result[i].protocol = NoStr

\* C11: a task whose DNS call did not give an address has made no request
\* and has returned the DNS Not Resolving result (no address, no URL, no
\* protocol); the failure of the call does not leave the task as an
\* exception.
C11_ResolutionFailureIsNormalOutcome ==
    \A i \in Tasks :
        (dns_log[i] # <<>> /\ dns_log[i][1].outcome # "address") =>
            /\ http_log[i] = <<>>
            /\ pc[i] = "done"
            /\ task_result[i].dns_resolves = FALSE
            /\ task_result[i].ip_address = NoStr
            /\ task_result[i].http_status = StrStatus("DNS Not Resolving")
            /\ task_result[i].final_url = NoText
            /\ task_result[i].protocol = NoStr

\* What C12 says of one result.
WellFormed(r) ==
    /\ r.ip_address.some <=> r.dns_resolves
    /\ ~r.dns_resolves =>
          r.http_status \in {StrStatus("Invalid Domain"),
                             StrStatus("DNS Not Resolving")}
    /\ r.dns_resolves =>
          \/ r.http_status.is_int
          \/ r.http_status = StrStatus("Connection Failed")
    /\ (r.final_url.some \/ r.protocol.some) => r.http_status.is_int
    /\ ~r.http_status.is_int => r.final_url = NoText /\ r.protocol = NoStr

\* C12: every result a task returned, and every row written, has an address
\* exactly when the domain resolved, a status that fits dns_resolves, and a
\* URL and a protocol only with an integer status.
C12_ResultsWellFormed ==
    /\ \A i \in Tasks : pc[i] = "done" => WellFormed(task_result[i])
    /\ \A n \in 1..Len(output) : WellFormed(RowResult(output[n]))

C12_Witness ==
    /\ mainpc = "finished"
    /\ \E n \in 1..Len(output) :
          /\ output[n].http_status = StrStatus("Connection Failed")
          /\ output[n].ip_address.some
    /\ \E n \in 1..Len(output) :
          /\ output[n].http_status.is_int
          /\ output[n].protocol = SomeStr("http")

\* ------------------------------------------------------------ classify
\* classify_status on its own: main at line 140 with every task returned,
\* the results being any combination of dns_resolves and a status, integers
\* at and around the ends of the ranges included; MainFinish classifies them.
ClassifyCodes == {0, 199, 200, 399, 400, 499, 500, 599, 600}
ClassifyStatuses ==
    {IntStatus(c) : c \in ClassifyCodes}
    \cup {StrStatus(t) : t \in {"Connection Failed", "Invalid Domain",
                                "DNS Not Resolving"}}
ClassifyResults ==
    { ProbeResult(d, NoStr, st, NoText, NoStr, NoError) :
        d \in BOOLEAN, st \in ClassifyStatuses }

ClassifyInit ==
    /\ sheet = [status |-> "ok",
                column |-> [i \in 1..NumDomains |-> StrCell(<<"a",".","c","o">>)]]
    /\ max_concurrent \in 1..MaxPermits
    /\ mainpc = "gather"
    /\ domains = [i \in 1..NumDomains |-> <<"a",".","c","o">>]
    /\ sem_value = max_concurrent
    /\ sem_waiters = <<>>
    /\ pc = [i \in Tasks |-> "done"]
    /\ running = 0
    /\ arg = [i \in Tasks |-> <<"a",".","c","o">>]
    /\ domain = [i \in Tasks |-> <<>>]
    /\ ip_address = [i \in Tasks |-> ""]
    /\ k_protocol = [i \in Tasks |-> 0]
    /\ error = [i \in Tasks |-> NoError]
    /\ task_result \in [Tasks -> ClassifyResults]
    /\ overtaken = FALSE
    /\ dns_log = [i \in Tasks |-> <<>>]
    /\ http_log = [i \in Tasks |-> <<>>]
    /\ output = <<>>
    /\ error_logs = 0

ClassifySpec == ClassifyInit /\ [][MainFinish]_vars

Categories ==
    {"Active", "Client Error", "Server Error",
     "Inactive (DNS not resolving)", "Inactive (Connection Failed)"}

\* C13: every row gets one of the five categories: Inactive (DNS not
\* resolving) when dns_resolves is false, whatever the status; otherwise
\* Active for an integer in [200,400), Client Error in [400,500), Server
\* Error in [500,600), and Inactive (Connection Failed) for anything else;
\* 200 and 399 are Active, 400 and 499 Client Error, 500 and 599 Server Error.
C13_ClassifyTotalByRanges ==
    \A n \in 1..Len(output) :
        LET row == output[n]
            st == row.http_status
            InRange(lo, hi) == st.is_int /\ lo <= st.code /\ st.code < hi
        IN  /\ row.category \in Categories
            /\ ~row.dns_resolves => row.category = "Inactive (DNS not resolving)"
            /\ row.dns_resolves =>
                  /\ InRange(200, 400) => row.category = "Active"
                  /\ InRange(400, 500) => row.category = "Client Error"
                  /\ InRange(500, 600) => row.category = "Server Error"
                  /\ ~InRange(200, 600) =>
                        row.category = "Inactive (Connection Failed)"
                  /\ st \in {IntStatus(200), IntStatus(399)} =>
                        row.category = "Active"
                  /\ st \in {IntStatus(400), IntStatus(499)} =>
                        row.category = "Client Error"
                  /\ st \in {IntStatus(500), IntStatus(599)} =>
                        row.category = "Server Error"
                  /\ st \in {IntStatus(199), IntStatus(600),
                             StrStatus("Connection Failed")} =>
                        row.category = "Inactive (Connection Failed)"

C13_Witness ==
    /\ Len(output) >= 2
    /\ output[1].dns_resolves
    /\ output[1].http_status = IntStatus(399)
    /\ output[1].category = "Active"
    /\ ~output[2].dns_resolves
    /\ output[2].http_status = IntStatus(200)
    /\ output[2].category = "Inactive (DNS not resolving)"

\* ------------------------------------------------------------ claims (2)
\* A task that has begun and not ended, and does not hold the thread: other
\* tasks take steps before it goes on.
Suspended(i) ==
    /\ pc[i] \notin {"none", "ready"} \cup Ended
    /\ running # i

\* C14: a task at its DNS call or with a request in flight is suspended, and
\* a suspended task is at one of these two places: not in the acquisition of
\* its slot, not in validation, not while it builds its result.
C14_SuspendsOnlyInDnsAndHttp ==
    \A i \in Tasks :
        /\ InNetworkPhase(i) => Suspended(i)
        /\ Suspended(i) => InNetworkPhase(i)

\* The step in which the request in flight of task i ends in a transport
\* error (lines 80-85, 96-97).
TransportErrorStep(i) ==
    /\ pc[i] = "request"
    /\ http_log'[i] # http_log[i]
    /\ http_log'[i][Len(http_log[i])].outcome.kind
          \in TransportErrors \cup {Superseded.kind}

\* C15: a request of task i that ends in a transport error ends only that
\* request: task i goes on to its http request, or returns Connection Failed
\* after the http one; the locals, calls, requests and results of every other
\* task stay as they are, no other task is moved except a waiter that gets the
\* slot task i gives back, and main, the output and the error log stay as
\* they are.
C15_TransportErrorEndsOnlyItsAttempt ==
    [][\A i \in Tasks : TransportErrorStep(i) =>
          /\ IF Len(http_log[i]) = 1
             THEN /\ pc'[i] = "request"
                  /\ Len(http_log'[i]) = 2
                  /\ http_log'[i][2] =
                        Attempt("http", BuildUrl("http", domain[i]), Pending)
                  /\ task_result'[i] = task_result[i]
                  /\ sem_value' = sem_value
                  /\ \A j \in Tasks \ {i} : pc'[j] = pc[j]
             ELSE /\ pc'[i] = "done"
                  /\ http_log'[i][1] = http_log[i][1]
                  /\ task_result'[i].http_status = StrStatus("Connection Failed")
                  /\ \A j \in Tasks \ {i} :
                        \/ pc'[j] = pc[j]
                        \/ pc[j] = "waiting" /\ pc'[j] = "woken"
          /\ \A j \in Tasks \ {i} :
                /\ domain'[j] = domain[j]
                /\ ip_address'[j] = ip_address[j]
                /\ k_protocol'[j] = k_protocol[j]
                /\ error'[j] = error[j]
                /\ dns_log'[j] = dns_log[j]
                /\ http_log'[j] = http_log[j]
                /\ task_result'[j] = task_result[j]
          /\ UNCHANGED <<mainVars, arg>>
      ]_vars

C15_Witness ==
    \E i \in Tasks : \E j \in Tasks \ {i} :
        /\ pc[i] = "done"
        /\ Len(http_log[i]) = 2
        /\ http_log[i][2].outcome.kind = "TimeoutException"
        /\ task_result[i].http_status = StrStatus("Connection Failed")
        /\ pc[j] = "request"
        /\ http_log[j][Len(http_log[j])].outcome = Pending
        /\ mainpc = "gather"

\* The result that the input of one task and the outcomes of its own DNS
\* call and requests determine, for a task that returned.
ResultOf(raw, dns, http) ==
    IF dns = <<>> THEN InvalidDomainResult
    ELSE IF dns[1].outcome # "address" THEN DnsNotResolvingResult
    ELSE LET last == http[Len(http)]
         IN  CASE last.outcome.kind = "response" ->
                    ResponseResult(dns[1].ip, last.outcome.code,
                                   last.outcome.url, last.protocol)
               [] last.outcome.kind = "HTTPStatusError" ->
                    HTTPStatusErrorResult(dns[1].ip, last.outcome.code,
                                          last.outcome.url, last.protocol)
               [] OTHER ->
                    ConnectionFailedResult(dns[1].ip,
                        TransportErrorText(last.outcome.kind, last.protocol))

\* What a returned task's result is, by its own input and outcomes alone.
OwnResultOnly ==
    \A i \in Tasks :
        pc[i] = "done" =>
            task_result[i] = ResultOf(arg[i], dns_log[i], http_log[i])

\* C16: the result recorded for input i is the one its own input and its own
\* DNS and HTTP outcomes determine, whatever the other inputs and their
\* outcomes, failures included: once main is past gather, a task that
\* returned has its row, with that result.
C16_ResultDependsOnOwnInputOnly ==
    /\ OwnResultOnly
    /\ \A i \in Tasks :
          (sheet.status = "ok" /\ mainpc \in {"finished", "failed"}
              /\ pc[i] = "done") =>
                /\ Len(output) >= i
                /\ output[i].domain = arg[i]
                /\ RowResult(output[i]) =
                      ResultOf(arg[i], dns_log[i], http_log[i])

\* A task has a permit from the moment acquire() took one, or release()
\* handed one to its queued future, until it leaves `async with`.
HasPermit(i) == HoldsSlot(i) \/ pc[i] = "woken"

\* C17: once the semaphore exists, free permits plus the tasks that have one
\* make max_concurrent and the free permits are never negative; a task that
\* has made its DNS call or a request and has not ended still has its slot
\* (it is held from before validation through both requests); and when all
\* tasks have ended, by a result or by an exception, all permits are free.
C17_SlotAccounting ==
    (\A i \in Tasks : pc[i] # "none") =>
        /\ sem_value >= 0
        /\ sem_value + Cardinality({i \in Tasks : HasPermit(i)}) = max_concurrent
        /\ \A i \in Tasks :
              /\ pc[i] \in {"ready", "waiting", "woken"} =>
                    dns_log[i] = <<>> /\ http_log[i] = <<>>
              /\ (pc[i] \notin Ended /\ dns_log[i] # <<>>) => HoldsSlot(i)
        /\ (\A i \in Tasks : pc[i] \in Ended) => sem_value = max_concurrent

C17_Witness ==
    /\ \A i \in Tasks : pc[i] \in {"done", "raised"}
    /\ \E i \in Tasks : pc[i] = "raised"
    /\ \E i \in Tasks : pc[i] = "done" /\ Len(http_log[i]) = 2
    /\ sem_value = max_concurrent
    /\ max_concurrent < NumDomains

\* The normalized domain of a raw text as C18 describes it: trimmed, in lower
\* case, and cut down to the authority (what lies between "//" and the next
\* "/", "?" or "#") when it then starts with http:// or https://.
NormalizedDomain(raw) ==
    LET d == lower(strip(raw))
    IN  IF startswith(d, HttpPrefix) \/ startswith(d, HttpsPrefix)
        THEN urlparse(d).netloc
        ELSE d

\* C18: every input that is not empty gets normalized and then validated (the
\* task does not end before its DNS call other than by the Invalid Domain
\* result); the DNS call is made with the normalized domain, and every
\* request goes to <protocol>://<normalized domain>, never to the raw text.
C18_NormalizedDomainIsProbed ==
    \A i \in Tasks :
        /\ ~(pc[i] = "raised" /\ dns_log[i] = <<>>)
        /\ (pc[i] = "done" /\ dns_log[i] = <<>>) =>
              task_result[i].http_status = StrStatus("Invalid Domain")
        /\ dns_log[i] # <<>> =>
              /\ dns_log[i][1].domain = NormalizedDomain(arg[i])
              /\ is_valid_domain(dns_log[i][1].domain)
        /\ \A k \in 1..Len(http_log[i]) :
              http_log[i][k].url =
                  ProtocolText(http_log[i][k].protocol) \o <<":","/","/">>
                      \o NormalizedDomain(arg[i])
        /\ (arg[i] = <<" ","H","T","T","P","S",":","/","/","B",".","i","o","/","p"," ">>
              /\ http_log[i] # <<>>) =>
                /\ dns_log[i][1].domain = <<"b",".","i","o">>
                /\ http_log[i][1].url = <<"h","t","t","p","s",":","/","/","b",".","i","o">>

\* C19: when the sheet cannot be read or lacks the Domain column, no task is
\* ever created, no DNS call and no request is made, nothing is written, and
\* once main has ended the failure has been logged exactly once.
C19_InputFailureAbortsBeforeTasks ==
    sheet.status # "ok" =>
        /\ \A i \in Tasks :
              /\ pc[i] = "none"
              /\ dns_log[i] = <<>>
              /\ http_log[i] = <<>>
              /\ task_result[i] = NoResult
        /\ domains = <<>>
        /\ output = <<>>
        /\ mainpc \in {"start", "failed", "no_column"}
        /\ error_logs = IF mainpc = "start" THEN 0 ELSE 1

C19_Witness ==
    /\ sheet.status = "no_column"
    /\ mainpc = "no_column"
    /\ error_logs = 1
    /\ output = <<>>

====
